---- MODULE Spec2Model ----
(***************************************************************************)
(* A model of the Snowflake ID generator of src/src/main.rs.               *)
(*                                                                         *)
(* Every u64 of the program is modelled exactly.  TLC's integers are 32    *)
(* bits wide, so a u64 is a tuple <<hi, mid, lo>> of three limbs: lo and   *)
(* mid hold LimbBits = 22 bits each and hi the remaining 20 bits:          *)
(*     value = hi * 2^44 + mid * 2^22 + lo.                                *)
(* The small fields (datacenter_id, machine_id, sequence), which the code  *)
(* keeps at or below 4095, are plain naturals and are widened with FromNat *)
(* where the code combines them with a timestamp.                          *)
(*                                                                         *)
(* The atomics are Ordering::Relaxed; the model interleaves the individual *)
(* loads and stores of the callers (sequential consistency), which is one  *)
(* of the behaviours relaxed atomics allow.                                *)
(***************************************************************************)
EXTENDS Integers, Sequences, FiniteSets, TLC

(***************************************************************************)
(* Constants of src/src/main.rs, lines 5-22.                               *)
(***************************************************************************)
SIGN_BITS == 1
TIMESTAMP_BITS == 41
DATACENTER_BITS == 5
MACHINE_BITS == 5
SEQUENCE_BITS == 12

MACHINE_SHIFT == SEQUENCE_BITS
DATACENTER_SHIFT == MACHINE_SHIFT + MACHINE_BITS
TIMESTAMP_SHIFT == DATACENTER_SHIFT + DATACENTER_BITS

\* 1 << n
Pow2(n) == 2 ^ n

\* (1 << BITS) - 1
MAX_DATACENTER == Pow2(DATACENTER_BITS) - 1
MAX_MACHINE == Pow2(MACHINE_BITS) - 1
MAX_SEQUENCE == Pow2(SEQUENCE_BITS) - 1

(***************************************************************************)
(* u64 arithmetic on limbs.                                                *)
(***************************************************************************)
U64_BITS == 64
LimbBits == TIMESTAMP_SHIFT
TopBits == U64_BITS - 2 * LimbBits
Limb == Pow2(LimbBits)
TopLimb == Pow2(TopBits)

Zero == <<0, 0, 0>>

\* n as u64, for a natural n below 2^31
FromNat(n) == <<0, n \div Limb, n % Limb>>

\* the natural a u64 below 2^22 stands for
ToNat(x) == x[3]

IsU64(x) ==
    /\ x \in Seq(Nat)
    /\ Len(x) = 3
    /\ x[1] < TopLimb
    /\ x[2] < Limb
    /\ x[3] < Limb

\* a < b
U64Lt(a, b) ==
    \/ a[1] < b[1]
    \/ a[1] = b[1] /\ a[2] < b[2]
    \/ a[1] = b[1] /\ a[2] = b[2] /\ a[3] < b[3]

\* a <= b
U64Le(a, b) == a = b \/ U64Lt(a, b)

\* a + b, wrapping at 2^64
U64Add(a, b) ==
    LET lo == a[3] + b[3]
        mid == a[2] + b[2] + (lo \div Limb)
        hi == a[1] + b[1] + (mid \div Limb)
    IN  <<hi % TopLimb, mid % Limb, lo % Limb>>

\* a - b, wrapping at 2^64
U64Sub(a, b) ==
    LET lo == a[3] - b[3]
        bl == IF lo < 0 THEN 1 ELSE 0
        mid == a[2] - b[2] - bl
        bm == IF mid < 0 THEN 1 ELSE 0
        hi == a[1] - b[1] - bm
    IN  <<hi % TopLimb, mid % Limb, lo % Limb>>

\* x << n, for 0 <= n <= LimbBits: the bits shifted past bit 63 are lost
Shl(x, n) ==
    LET k == Pow2(n)
        r == Pow2(LimbBits - n)
        keep == IF n >= TopBits THEN 0 ELSE (x[1] % Pow2(TopBits - n)) * k
    IN  << (keep + (x[2] \div r)) % TopLimb,
           (x[2] % r) * k + (x[3] \div r),
           (x[3] % r) * k >>

\* x >> n, for 0 <= n <= LimbBits
Shr(x, n) ==
    LET k == Pow2(n)
        r == Pow2(LimbBits - n)
    IN  << x[1] \div k,
           (x[2] \div k) + (x[1] % k) * r,
           (x[3] \div k) + (x[2] % k) * r >>

\* a | b and a & b on one limb, bit by bit from the lowest (as functions:
\* each argument is evaluated once)
BitOr(a, b) ==
    LET or[p \in Nat \X Nat] ==
            IF p[1] = 0 THEN p[2]
            ELSE IF p[2] = 0 THEN p[1]
            ELSE (IF p[1] % 2 = 1 \/ p[2] % 2 = 1 THEN 1 ELSE 0)
                 + 2 * or[<<p[1] \div 2, p[2] \div 2>>]
    IN  or[<<a, b>>]

BitAnd(a, b) ==
    LET and[p \in Nat \X Nat] ==
            IF p[1] = 0 \/ p[2] = 0 THEN 0
            ELSE (IF p[1] % 2 = 1 /\ p[2] % 2 = 1 THEN 1 ELSE 0)
                 + 2 * and[<<p[1] \div 2, p[2] \div 2>>]
    IN  and[<<a, b>>]

\* a | b
U64Or(a, b) ==
    LET or[p \in Seq(Nat) \X Seq(Nat)] ==
            <<BitOr(p[1][1], p[2][1]), BitOr(p[1][2], p[2][2]),
              BitOr(p[1][3], p[2][3])>>
    IN  or[<<a, b>>]

\* a & b
U64And(a, b) ==
    LET and[p \in Seq(Nat) \X Seq(Nat)] ==
            <<BitAnd(p[1][1], p[2][1]), BitAnd(p[1][2], p[2][2]),
              BitAnd(p[1][3], p[2][3])>>
    IN  and[<<a, b>>]

\* 1288834974657 = 307282 * 2^22 + 852929
CUSTOM_EPOCH == <<0, 307282, 852929>>


(***************************************************************************)
(* Bounds of the model.                                                    *)
(***************************************************************************)
\* the clock reads CUSTOM_EPOCH + 0 .. CUSTOM_EPOCH + MaxTick
MaxTick == 2
\* the same for the runs of concurrent callers
MaxConcTick == 1
\* calls of next_id per caller in the audited (concurrent) runs
MaxCalls == 2
\* new() is tried with every datacenter_id and machine_id in 0 .. MaxIdInput
MaxIdInput == 33
\* how far the clock goes on each side of CUSTOM_EPOCH and past the last
\* offset of 41 bits, in the runs over the whole range of the clock
MaxWideTick == 1
\* calls of next_id per caller in the runs checked for termination
MaxLiveCalls == 1

Gens == {1, 2}
Threads == {1, 2}

ClockValues == {U64Add(CUSTOM_EPOCH, FromNat(i)) : i \in 0 .. MaxTick}
ConcClockValues == {U64Add(CUSTOM_EPOCH, FromNat(i)) : i \in 0 .. MaxConcTick}

NoId == <<>>

(***************************************************************************)
(* Snowflake::new, lines 34-54: a generator, or a panic and no generator.  *)
(***************************************************************************)
NoGen ==
    [state |-> "none", datacenter_id |-> 0, machine_id |-> 0,
     sequence |-> 0, last_timestamp |-> Zero]

\* the bounds compared with >= : 31 is turned away
newRejectsMax(datacenter_id, machine_id) ==
    IF datacenter_id >= MAX_DATACENTER
    THEN [NoGen EXCEPT !.state = "panic: datacenter_id out of range"]
    ELSE IF machine_id >= MAX_MACHINE
    THEN [NoGen EXCEPT !.state = "panic: machine_id out of range"]
    ELSE [state |-> "built",
          datacenter_id |-> datacenter_id,
          machine_id |-> machine_id,
          sequence |-> 0,
          last_timestamp |-> Zero]

new(datacenter_id, machine_id) ==
    IF datacenter_id > MAX_DATACENTER
    THEN [NoGen EXCEPT !.state = "panic: datacenter_id out of range"]
    ELSE IF machine_id > MAX_MACHINE
    THEN [NoGen EXCEPT !.state = "panic: machine_id out of range"]
    ELSE [state |-> "built",
          datacenter_id |-> datacenter_id,
          machine_id |-> machine_id,
          sequence |-> 0,
          last_timestamp |-> Zero]

(***************************************************************************)
(* The value next_id returns, lines 97-100.                                *)
(***************************************************************************)
\* timestamp - CUSTOM_EPOCH overflows: a panic in a build with overflow
\* checks, a wrapped difference in a build without
SubOverflows(timestamp) == U64Lt(timestamp, CUSTOM_EPOCH)

\* (offset << TIMESTAMP_SHIFT) | (datacenter_id << DATACENTER_SHIFT)
\*     | (machine_id << MACHINE_SHIFT) | seq
\* the machine id left out of the ID
PackNoMachine(offset, datacenter_id, machine_id, seq) ==
    U64Or(U64Or(Shl(offset, TIMESTAMP_SHIFT),
                Shl(FromNat(datacenter_id), DATACENTER_SHIFT)),
          FromNat(seq))

Pack(offset, datacenter_id, machine_id, seq) ==
    U64Or(U64Or(U64Or(Shl(offset, TIMESTAMP_SHIFT),
                      Shl(FromNat(datacenter_id), DATACENTER_SHIFT)),
                Shl(FromNat(machine_id), MACHINE_SHIFT)),
          FromNat(seq))

\* the timestamp packed as it is, not as an offset from the epoch
EncodeNoEpoch(timestamp, datacenter_id, machine_id, seq) ==
    Pack(timestamp, datacenter_id, machine_id, seq)

Encode(timestamp, datacenter_id, machine_id, seq) ==
    Pack(U64Sub(timestamp, CUSTOM_EPOCH), datacenter_id, machine_id, seq)

(***************************************************************************)
(* Snowflake::decode, lines 104-110.                                       *)
(***************************************************************************)
\* the machine field shifted down but not masked
decodeNoMachineMask(id) ==
    LET sequence == U64And(id, FromNat(MAX_SEQUENCE))
        machine == Shr(id, MACHINE_SHIFT)
        datacenter == U64And(Shr(id, DATACENTER_SHIFT), FromNat(MAX_DATACENTER))
        timestamp == U64Add(Shr(id, TIMESTAMP_SHIFT), CUSTOM_EPOCH)
    IN  <<timestamp, ToNat(datacenter), ToNat(machine), ToNat(sequence)>>

decode(id) ==
    LET sequence == U64And(id, FromNat(MAX_SEQUENCE))
        machine == U64And(Shr(id, MACHINE_SHIFT), FromNat(MAX_MACHINE))
        datacenter == U64And(Shr(id, DATACENTER_SHIFT), FromNat(MAX_DATACENTER))
        timestamp == U64Add(Shr(id, TIMESTAMP_SHIFT), CUSTOM_EPOCH)
    IN  <<timestamp, ToNat(datacenter), ToNat(machine), ToNat(sequence)>>

(***************************************************************************)
(* State.                                                                  *)
(***************************************************************************)
VARIABLES
    gen,        \* gen[g]: the generator g (struct Snowflake), or why there is none
    th,         \* th[t]: caller t's position in next_id and its locals; ts is
                \* what wait_next_millis last read (kept in the audited runs:
                \* the loop uses it in its test and nowhere else)
    clock,      \* what SystemTime::now() reads, in ms since the Unix epoch
    audit,      \* TRUE in the runs that bound the calls and record every ID
    issued,     \* issued[g]: the IDs generator g has returned (audited runs)
    returns,    \* returns[g]: how many calls of g have returned (audited runs)
    obs,        \* obs[g]: the last ID g returned (cur), the one before (prev), the
                \* largest before cur (prevMax), and how many IDs up to cur carry
                \* cur's timestamp without another in between (run)
    args,       \* args[g]: the arguments new() was called with
    dec         \* the call of decode: the fields its argument was packed from,
                \* the argument and the result

vars == <<gen, th, clock, audit, issued, returns, obs, args, dec>>

MaxId(a, b) ==
    IF a = NoId THEN b
    ELSE IF b = NoId THEN a
    ELSE IF U64Lt(a, b) THEN b ELSE a

\* the largest ID generator g has returned so far
MaxSeen(g) == MaxId(obs[g].prevMax, obs[g].cur)

ThreadInit(g) ==
    [pc |-> "idle", g |-> g, timestamp |-> Zero, last_ts |-> Zero, seq |-> 0,
     ret |-> NoId, calls |-> 0, began |-> Zero, floor |-> NoId,
     waited |-> "none", ts |-> NoId]

HistoryInit ==
    /\ issued = [g \in Gens |-> {}]
    /\ returns = [g \in Gens |-> 0]
    /\ obs = [g \in Gens |-> [cur |-> NoId, prev |-> NoId, prevMax |-> NoId,
                              run |-> 0]]
    /\ dec = [parts |-> NoId, id |-> NoId, out |-> NoId]

(***************************************************************************)
(* The clock.                                                              *)
(***************************************************************************)
\* Snowflake::current_timestamp, lines 57-62
current_timestamp == clock

ClockAdvance(values) ==
    /\ \E c \in values : U64Lt(clock, c) /\ clock' = c
    /\ UNCHANGED <<gen, th, audit, issued, returns, obs, args, dec>>

ClockRollback(values) ==
    /\ \E c \in values : U64Lt(c, clock) /\ clock' = c
    /\ UNCHANGED <<gen, th, audit, issued, returns, obs, args, dec>>

(***************************************************************************)
(* Construction and decoding as operations.                                *)
(***************************************************************************)
New(g, datacenter_id, machine_id) ==
    /\ gen[g].state = "none"
    /\ gen' = [gen EXCEPT ![g] = new(datacenter_id, machine_id)]
    /\ args' = [args EXCEPT ![g] = <<datacenter_id, machine_id>>]
    /\ UNCHANGED <<th, clock, audit, issued, returns, obs, dec>>

Decode(offset, datacenter, machine, sequence) ==
    /\ dec.id = NoId
    /\ LET id == Pack(offset, datacenter, machine, sequence)
       IN  dec' = [parts |-> <<offset, datacenter, machine, sequence>>,
                   id |-> id, out |-> decode(id)]
    /\ UNCHANGED <<gen, th, clock, audit, issued, returns, obs, args>>

(***************************************************************************)
(* Snowflake::next_id, lines 74-101, one action per access to the clock or *)
(* to an atomic; the local computation that follows an access is part of   *)
(* its action.                                                             *)
(***************************************************************************)
\* line 75: let mut timestamp = Snowflake::current_timestamp();
NextIdBegin(t, g) ==
    /\ th[t].pc = "idle"
    /\ gen[g].state = "built"
    /\ audit => th[t].calls < MaxCalls
    /\ th' = [th EXCEPT ![t] =
                [@ EXCEPT !.pc = "load_last",
                          !.g = g,
                          !.timestamp = current_timestamp,
                          !.ret = NoId,
                          !.calls = IF audit THEN @ + 1 ELSE @,
                          !.began = current_timestamp,
                          !.floor = MaxSeen(g),
                          !.waited = "none",
                          !.ts = NoId]]
    /\ UNCHANGED <<gen, clock, audit, issued, returns, obs, args, dec>>

\* the sequence reset in every call, also when timestamp = last_ts
LoadLastAlwaysResets(t) ==
    /\ th[t].pc = "load_last"
    /\ LET last_ts == gen[th[t].g].last_timestamp
           timestamp == th[t].timestamp
       IN  th' = [th EXCEPT ![t] =
                    IF U64Lt(timestamp, last_ts)
                    THEN [@ EXCEPT !.last_ts = last_ts, !.pc = "wait_rollback"]
                    ELSE [@ EXCEPT !.last_ts = last_ts, !.seq = 0,
                                   !.pc = "store_seq"]]
    /\ UNCHANGED <<gen, clock, audit, issued, returns, obs, args, dec>>

\* no test for a clock behind last_timestamp
LoadLastNoRollbackTest(t) ==
    /\ th[t].pc = "load_last"
    /\ LET last_ts == gen[th[t].g].last_timestamp
           timestamp == th[t].timestamp
       IN  th' = [th EXCEPT ![t] =
                    IF timestamp = last_ts
                    THEN [@ EXCEPT !.last_ts = last_ts, !.pc = "load_seq"]
                    ELSE [@ EXCEPT !.last_ts = last_ts, !.seq = 0,
                                   !.pc = "store_seq"]]
    /\ UNCHANGED <<gen, clock, audit, issued, returns, obs, args, dec>>

\* lines 76-83: load last_timestamp, then choose the branch
LoadLast(t) ==
    /\ th[t].pc = "load_last"
    /\ LET last_ts == gen[th[t].g].last_timestamp
           timestamp == th[t].timestamp
       IN  th' = [th EXCEPT ![t] =
                    IF U64Lt(timestamp, last_ts)
                    THEN [@ EXCEPT !.last_ts = last_ts, !.pc = "wait_rollback"]
                    ELSE IF timestamp = last_ts
                    THEN [@ EXCEPT !.last_ts = last_ts, !.pc = "load_seq"]
                    ELSE [@ EXCEPT !.last_ts = last_ts, !.seq = 0,
                                   !.pc = "store_seq"]]
    /\ UNCHANGED <<gen, clock, audit, issued, returns, obs, args, dec>>

\* the loop of wait_next_millis written with < : it ends once ts = last
WaitNextMillisEndsAtLast(ts, last) == ~U64Lt(ts, last)

\* wait_next_millis, line 67: the loop goes round while ts <= last
WaitNextMillisEnds(ts, last) == ~U64Le(ts, last)

\* line 68 left out: the loop tests the value of line 66 again and again
WaitRollbackNoReread(t) ==
    /\ th[t].pc = "wait_rollback"
    /\ LET ts == IF th[t].ts = NoId THEN current_timestamp ELSE th[t].ts
           seen == IF audit THEN ts ELSE NoId
       IN  th' = [th EXCEPT ![t] =
                    IF ~WaitNextMillisEnds(ts, th[t].last_ts)
                    THEN [@ EXCEPT !.ts = seen]
                    ELSE IF ts = th[t].last_ts
                    THEN [@ EXCEPT !.ts = seen, !.timestamp = ts,
                                   !.waited = "rollback", !.pc = "load_seq"]
                    ELSE [@ EXCEPT !.ts = seen, !.timestamp = ts, !.seq = 0,
                                   !.waited = "rollback", !.pc = "store_seq"]]
    /\ UNCHANGED <<gen, clock, audit, issued, returns, obs, args, dec>>

\* line 80 and wait_next_millis, lines 65-71: one read of the clock into
\* ts, and when the loop ends, the test of line 83 on the new timestamp
WaitRollback(t) ==
    /\ th[t].pc = "wait_rollback"
    /\ LET ts == current_timestamp
           seen == IF audit THEN ts ELSE NoId
       IN  th' = [th EXCEPT ![t] =
                    IF ~WaitNextMillisEnds(ts, th[t].last_ts)
                    THEN [@ EXCEPT !.ts = seen]
                    ELSE IF ts = th[t].last_ts
                    THEN [@ EXCEPT !.ts = seen, !.timestamp = ts,
                                   !.waited = "rollback", !.pc = "load_seq"]
                    ELSE [@ EXCEPT !.ts = seen, !.timestamp = ts, !.seq = 0,
                                   !.waited = "rollback", !.pc = "store_seq"]]
    /\ UNCHANGED <<gen, clock, audit, issued, returns, obs, args, dec>>

\* the sequence incremented and not masked
LoadSeqNoMask(t) ==
    /\ th[t].pc = "load_seq"
    /\ LET next == gen[th[t].g].sequence + 1
       IN  th' = [th EXCEPT ![t] =
                    [@ EXCEPT !.seq = next,
                              !.pc = IF next = 0 THEN "wait_exhaust"
                                     ELSE "store_seq"]]
    /\ UNCHANGED <<gen, clock, audit, issued, returns, obs, args, dec>>

\* lines 84-89: load sequence, next = (sequence + 1) & MAX_SEQUENCE
LoadSeq(t) ==
    /\ th[t].pc = "load_seq"
    /\ LET next == BitAnd(gen[th[t].g].sequence + 1, MAX_SEQUENCE)
       IN  th' = [th EXCEPT ![t] =
                    [@ EXCEPT !.seq = next,
                              !.pc = IF next = 0 THEN "wait_exhaust"
                                     ELSE "store_seq"]]
    /\ UNCHANGED <<gen, clock, audit, issued, returns, obs, args, dec>>

\* the value wait_next_millis returns is dropped: line 87 without
\* "timestamp ="
WaitExhaustKeepsTimestamp(t) ==
    /\ th[t].pc = "wait_exhaust"
    /\ LET ts == current_timestamp
           seen == IF audit THEN ts ELSE NoId
       IN  th' = [th EXCEPT ![t] =
                    IF ~WaitNextMillisEnds(ts, th[t].last_ts)
                    THEN [@ EXCEPT !.ts = seen]
                    ELSE [@ EXCEPT !.ts = seen, !.waited = "exhaust",
                                   !.pc = "store_seq"]]
    /\ UNCHANGED <<gen, clock, audit, issued, returns, obs, args, dec>>

\* line 87 and wait_next_millis, lines 65-71: one read of the clock into ts
WaitExhaust(t) ==
    /\ th[t].pc = "wait_exhaust"
    /\ LET ts == current_timestamp
           seen == IF audit THEN ts ELSE NoId
       IN  th' = [th EXCEPT ![t] =
                    IF ~WaitNextMillisEnds(ts, th[t].last_ts)
                    THEN [@ EXCEPT !.ts = seen]
                    ELSE [@ EXCEPT !.ts = seen, !.timestamp = ts,
                                   !.waited = "exhaust", !.pc = "store_seq"]]
    /\ UNCHANGED <<gen, clock, audit, issued, returns, obs, args, dec>>

\* line 94 left out: the sequence is returned and not stored
StoreSeqSkipsStore(t) ==
    /\ th[t].pc = "store_seq"
    /\ th' = [th EXCEPT ![t].pc = "store_ts"]
    /\ UNCHANGED <<gen, clock, audit, issued, returns, obs, args, dec>>

\* line 94: self.sequence.store(seq)
StoreSeq(t) ==
    /\ th[t].pc = "store_seq"
    /\ gen' = [gen EXCEPT ![th[t].g].sequence = th[t].seq]
    /\ th' = [th EXCEPT ![t].pc = "store_ts"]
    /\ UNCHANGED <<clock, audit, issued, returns, obs, args, dec>>

\* lines 95-100: self.last_timestamp.store(timestamp), then the ID is put
\* together and returned.  Where timestamp - CUSTOM_EPOCH overflows, a build
\* with overflow checks panics and a build without them wraps.
StoreTs(t) ==
    /\ th[t].pc = "store_ts"
    /\ LET g == th[t].g
           timestamp == th[t].timestamp
       IN  /\ gen' = [gen EXCEPT ![g].last_timestamp = timestamp]
           /\ \E id \in {Encode(timestamp, gen[g].datacenter_id,
                                gen[g].machine_id, th[t].seq)},
                 checks \in (IF SubOverflows(timestamp) THEN BOOLEAN ELSE {FALSE}) :
                IF checks
                THEN /\ th' = [th EXCEPT ![t].pc = "panicked"]
                     /\ UNCHANGED <<issued, returns, obs>>
                ELSE /\ th' = [th EXCEPT ![t] = [@ EXCEPT !.pc = "idle", !.ret = id]]
                     /\ obs' = [obs EXCEPT ![g] =
                                  [cur |-> id, prev |-> @.cur,
                                   prevMax |-> MaxId(@.prevMax, @.cur),
                                   run |-> IF @.cur # NoId /\
                                              decode(@.cur)[1] = decode(id)[1]
                                           THEN @.run + 1 ELSE 1]]
                     /\ issued' = IF audit THEN [issued EXCEPT ![g] = @ \cup {id}]
                                  ELSE issued
                     /\ returns' = IF audit THEN [returns EXCEPT ![g] = @ + 1]
                                   ELSE returns
    /\ UNCHANGED <<clock, audit, args, dec>>

\* the steps of caller t inside next_id, after its first read of the clock
NextIdRun(t) ==
    \/ LoadLast(t)
    \/ WaitRollback(t)
    \/ LoadSeq(t)
    \/ WaitExhaust(t)
    \/ StoreSeq(t)
    \/ StoreTs(t)

\* a call of next_id by caller t on one of the generators gs, but for the
\* wait of line 80
NextIdForward(t, gs) ==
    \/ \E g \in gs : NextIdBegin(t, g)
    \/ LoadLast(t)
    \/ LoadSeq(t)
    \/ WaitExhaust(t)
    \/ StoreSeq(t)
    \/ StoreTs(t)

\* a call of next_id by caller t on one of the generators gs
NextId(t, gs) ==
    \/ NextIdForward(t, gs)
    \/ WaitRollback(t)


(***************************************************************************)
(* SpecSeq: one caller on the generator of main and of the tests,          *)
(* Snowflake::new(1, 1), with a clock that moves forward and backward.     *)
(* SpecMono: the same with a clock that never moves backward.  There the   *)
(* caller never finds the clock behind last_timestamp (C2 states it), so   *)
(* the wait of line 80 is never entered and is left out of MonoNext.       *)
(***************************************************************************)
MAIN_DATACENTER == 1
MAIN_MACHINE == 1

SeqInit ==
    /\ gen = [g \in Gens |-> NoGen]
    /\ th = [t \in Threads |-> ThreadInit(1)]
    /\ clock \in ClockValues
    /\ audit = FALSE
    /\ args = [g \in Gens |-> <<>>]
    /\ HistoryInit

MonoNext ==
    \/ New(1, MAIN_DATACENTER, MAIN_MACHINE)
    \/ NextIdForward(1, {1})
    \/ ClockAdvance(ClockValues)

SeqNext ==
    \/ MonoNext
    \/ WaitRollback(1)
    \/ ClockRollback(ClockValues)

SpecMono == SeqInit /\ [][MonoNext]_vars

SpecSeq == SeqInit /\ [][SeqNext]_vars


(***************************************************************************)
(* The audited runs bound the calls of each caller by MaxCalls and record  *)
(* every ID returned.  They start on generators that new() built and that  *)
(* a single caller may have used before: SpecSeq reaches                   *)
(* last_timestamp = T with sequence = MAX_SEQUENCE - 1 and with            *)
(* sequence = MAX_SEQUENCE, for every T of the clock.                      *)
(***************************************************************************)
UsedStates(g0, values) ==
    {g0} \cup {[g0 EXCEPT !.sequence = q, !.last_timestamp = T] :
                 q \in {MAX_SEQUENCE - 1, MAX_SEQUENCE}, T \in values}

\* SpecConc: the callers share generator 1; the clock never moves backward
ConcInit ==
    /\ \E u \in UsedStates(new(MAIN_DATACENTER, MAIN_MACHINE), ConcClockValues) :
          gen = [g \in Gens |-> IF g = 1 THEN u ELSE NoGen]
    /\ th = [t \in Threads |-> ThreadInit(1)]
    /\ clock \in ConcClockValues
    /\ U64Le(gen[1].last_timestamp, clock)
    /\ audit = TRUE
    /\ args = [g \in Gens |-> IF g = 1 THEN <<MAIN_DATACENTER, MAIN_MACHINE>>
                              ELSE <<>>]
    /\ HistoryInit

ConcNext ==
    \/ \E t \in Threads : NextId(t, {1})
    \/ ClockAdvance(ConcClockValues)

SpecConc == ConcInit /\ [][ConcNext]_vars

\* SpecTwo: one caller calls two generators in any order; they share no state,
\* are built from any two pairs of valid ids, and the clock, which stands for
\* the clocks of both, moves forward and backward
IdSamples == {0, MAX_DATACENTER}

TwoInit ==
    /\ \E a \in [Gens -> IdSamples \X IdSamples] :
          /\ args = a
          /\ \E u \in [Gens -> UNION {UsedStates(new(p[1], p[2]), ClockValues) :
                                         p \in IdSamples \X IdSamples}] :
                /\ \A g \in Gens :
                      u[g] \in UsedStates(new(a[g][1], a[g][2]), ClockValues)
                /\ gen = u
    /\ th = [t \in Threads |-> ThreadInit(1)]
    /\ clock \in ClockValues
    /\ audit = TRUE
    /\ HistoryInit

TwoNext ==
    \/ NextId(1, Gens)
    \/ ClockAdvance(ClockValues)
    \/ ClockRollback(ClockValues)

SpecTwo == TwoInit /\ [][TwoNext]_vars

(***************************************************************************)
(* SpecLive: the callers share generator 1, which an earlier caller may    *)
(* have left with last_timestamp ahead of the clock (the clock was set     *)
(* back); from then on the clock moves forward only.  Fairness: a thread   *)
(* inside next_id goes on running (the scheduler runs every thread; the    *)
(* loops of wait_next_millis spin, they do not block), and the clock goes  *)
(* on advancing, here up to LiveTop, the last value of the bounded clock.  *)
(***************************************************************************)
LiveTop == U64Add(CUSTOM_EPOCH, FromNat(MaxTick))

LiveInit ==
    /\ \E u \in UsedStates(new(MAIN_DATACENTER, MAIN_MACHINE), ClockValues) :
          gen = [g \in Gens |-> IF g = 1 THEN u ELSE NoGen]
    /\ th = [t \in Threads |-> ThreadInit(1)]
    /\ clock \in ClockValues
    /\ audit = TRUE
    /\ args = [g \in Gens |-> IF g = 1 THEN <<MAIN_DATACENTER, MAIN_MACHINE>>
                              ELSE <<>>]
    /\ HistoryInit

LiveNext ==
    \/ \E t \in Threads : th[t].calls < MaxLiveCalls /\ NextIdBegin(t, 1)
    \/ \E t \in Threads : NextIdRun(t)
    \/ ClockAdvance(ClockValues)

SpecLive ==
    /\ LiveInit
    /\ [][LiveNext]_vars
    /\ WF_vars(ClockAdvance(ClockValues))
    /\ \A t \in Threads : WF_vars(NextIdRun(t))

(***************************************************************************)
(* SpecNew: new() on every pair of arguments in 0 .. MaxIdInput.           *)
(* SpecDecode: decode() on IDs packed by hand from sample fields.          *)
(***************************************************************************)
ApiInit ==
    /\ gen = [g \in Gens |-> NoGen]
    /\ th = [t \in Threads |-> ThreadInit(1)]
    /\ clock = CUSTOM_EPOCH
    /\ audit = FALSE
    /\ args = [g \in Gens |-> <<>>]
    /\ HistoryInit

NewNext == \E d \in 0 .. MaxIdInput, m \in 0 .. MaxIdInput : New(1, d, m)

SpecNew == ApiInit /\ [][NewNext]_vars

\* 2^41 - 1
MaxOffset == <<0, Pow2(TIMESTAMP_BITS - LimbBits) - 1, Limb - 1>>

OffsetSamples ==
    {FromNat(i) : i \in 0 .. MaxTick} \cup
    {U64Sub(MaxOffset, FromNat(i)) : i \in 0 .. MaxTick}

DatacenterSamples == {0, 5, 21, MAX_DATACENTER}
MachineSamples == {0, 7, 10, MAX_MACHINE}
SequenceSamples == {0, 42, 2730, MAX_SEQUENCE}

DecodeNext ==
    \E o \in OffsetSamples, d \in DatacenterSamples, m \in MachineSamples,
       s \in SequenceSamples : Decode(o, d, m, s)

SpecDecode == ApiInit /\ [][DecodeNext]_vars

(***************************************************************************)
(* SpecWide: one caller on the generator of main, with a clock that reads  *)
(* any number of milliseconds since the Unix epoch: 0, the values around   *)
(* CUSTOM_EPOCH, and the values around CUSTOM_EPOCH + 2^41, where the      *)
(* offset no longer fits in 41 bits.  current_timestamp panics only when   *)
(* the clock is before the Unix epoch, so each of these is a value it can  *)
(* return.                                                                 *)
(***************************************************************************)
WideClockValues ==
    {Zero} \cup
    {U64Sub(CUSTOM_EPOCH, FromNat(i)) : i \in 1 .. MaxWideTick} \cup
    {U64Add(CUSTOM_EPOCH, FromNat(i)) : i \in 0 .. MaxWideTick} \cup
    {U64Add(U64Add(CUSTOM_EPOCH, MaxOffset), FromNat(i)) : i \in 0 .. MaxWideTick}

WideInit ==
    /\ \E u \in UsedStates(new(MAIN_DATACENTER, MAIN_MACHINE), WideClockValues) :
          gen = [g \in Gens |-> IF g = 1 THEN u ELSE NoGen]
    /\ th = [t \in Threads |-> ThreadInit(1)]
    /\ clock \in WideClockValues
    /\ audit = TRUE
    /\ args = [g \in Gens |-> IF g = 1 THEN <<MAIN_DATACENTER, MAIN_MACHINE>>
                              ELSE <<>>]
    /\ HistoryInit

WideNext ==
    \/ NextId(1, {1})
    \/ ClockAdvance(WideClockValues)
    \/ ClockRollback(WideClockValues)

SpecWide == WideInit /\ [][WideNext]_vars


(***************************************************************************)
(* The fields of an ID, read with decode.                                  *)
(***************************************************************************)
TsOf(id) == decode(id)[1]
SeqOf(id) == decode(id)[4]

\* caller t has returned from a call and has not begun the next one
Returned(t) == th[t].pc = "idle" /\ th[t].ret # NoId

(***************************************************************************)
(* C1 (SpecConc).  No two calls of next_id on one shared generator return  *)
(* the same ID, in any interleaving of the loads and stores of concurrent  *)
(* callers: the IDs a generator has returned are as many as the calls that *)
(* have returned.                                                          *)
(***************************************************************************)
C1_NoDuplicateIds ==
    \A g \in Gens : Cardinality(issued[g]) = returns[g]

(***************************************************************************)
(* C8 (SpecConc).  With a clock that never moves backward, a call that     *)
(* begins after another call on the same generator has returned gets an ID *)
(* greater than or equal to that call's ID: the ID a caller returns is at  *)
(* least the largest ID returned before its call began.                    *)
(***************************************************************************)
C8_RealTimeOrder ==
    \A t \in Threads :
        Returned(t) /\ th[t].floor # NoId => U64Le(th[t].floor, th[t].ret)

(***************************************************************************)
(* C10 (SpecConc).  In every reachable state, under one caller or any      *)
(* interleaving of callers, the stored sequence is in 0 .. 4095, and so is *)
(* the sequence a call is about to store and the sequence field of every   *)
(* ID returned.                                                            *)
(***************************************************************************)
C10_SequenceInRange ==
    /\ \A g \in Gens : gen[g].sequence \in 0 .. 4095
    /\ \A t \in Threads :
          /\ th[t].pc \in {"store_seq", "store_ts"} => th[t].seq \in 0 .. 4095
          /\ Returned(t) => th[t].seq \in 0 .. 4095 /\ SeqOf(th[t].ret) = th[t].seq

\* two callers are inside next_id at once, one of them having wrapped the
\* sequence from 4095 to 0 and stored it
C10_Witness ==
    \E t, u \in Threads :
        /\ t # u
        /\ th[t].pc = "store_ts" /\ th[t].waited = "exhaust" /\ th[t].seq = 0
        /\ gen[1].sequence = 0
        /\ th[u].pc \notin {"idle", "panicked"}


(***************************************************************************)
(* C2 (SpecMono).  One caller, a clock that never moves backward: every    *)
(* call returns an ID strictly greater, as a u64, than the ID the previous *)
(* call returned, also across the wrap of the sequence after 4096 IDs of   *)
(* one millisecond; no call finds the clock behind last_timestamp.         *)
(***************************************************************************)
C2_StrictlyIncreasing ==
    /\ obs[1].prev # NoId => U64Lt(obs[1].prev, obs[1].cur)
    /\ th[1].pc # "wait_rollback"

\* the call after the 4096th ID of a millisecond has returned
C2_Witness ==
    /\ obs[1].prev # NoId
    /\ SeqOf(obs[1].prev) = 4095
    /\ obs[1].run = 1
    /\ Returned(1)

(***************************************************************************)
(* C3 (SpecSeq).  One caller, a clock that also moves backward: a call     *)
(* that read the clock below last_timestamp leaves its wait only with a    *)
(* clock value above the last_timestamp it read, and every ID returned is  *)
(* strictly greater than every ID returned before.                         *)
(***************************************************************************)
C3_RollbackStalls ==
    /\ th[1].waited = "rollback" =>
          /\ U64Lt(th[1].last_ts, th[1].timestamp)
          /\ U64Lt(th[1].began, th[1].last_ts)
    /\ th[1].pc = "wait_rollback" => th[1].ret = NoId
    /\ obs[1].prevMax # NoId => U64Lt(obs[1].prevMax, obs[1].cur)

\* a call that found the clock behind last_timestamp has returned, after
\* earlier IDs
C3_Witness ==
    /\ Returned(1)
    /\ th[1].waited = "rollback"
    /\ obs[1].prevMax # NoId
    /\ th[1].ret = obs[1].cur

(***************************************************************************)
(* C4 (SpecMono).  With the clock held at one millisecond T, the calls on  *)
(* a fresh generator return timestamp T with the sequences 0, 1, ..., 4095 *)
(* in that order: an ID carries the timestamp the clock read during its    *)
(* call, the k-th ID in a row with one timestamp carries sequence k - 1,   *)
(* and k is at most 4096.  The call after sequence 4095 returns only once  *)
(* the clock reads more than T, with a timestamp above T and sequence 0.   *)
(***************************************************************************)
C4_WrapWithinMillisecond ==
    /\ Returned(1) =>
          /\ TsOf(th[1].ret) = th[1].timestamp
          /\ U64Le(th[1].began, th[1].timestamp)
          /\ U64Le(th[1].timestamp, clock)
    /\ obs[1].cur # NoId =>
          /\ obs[1].run \in 1 .. 4096
          /\ SeqOf(obs[1].cur) = obs[1].run - 1
    /\ obs[1].prev # NoId /\ SeqOf(obs[1].prev) = 4095 =>
          /\ U64Lt(TsOf(obs[1].prev), TsOf(obs[1].cur))
          /\ SeqOf(obs[1].cur) = 0
    /\ th[1].pc = "wait_exhaust" =>
          /\ th[1].ret = NoId
          /\ th[1].timestamp = th[1].last_ts
    /\ th[1].waited = "exhaust" =>
          /\ U64Lt(th[1].last_ts, th[1].timestamp)
          /\ th[1].seq = 0

\* the 4097th call has returned: the 4096 IDs before it carry the first
\* clock value, the clock has moved once, and the call waited for it
C4_Witness ==
    /\ Returned(1)
    /\ th[1].waited = "exhaust"
    /\ obs[1].prev = Encode(CUSTOM_EPOCH, MAIN_DATACENTER, MAIN_MACHINE, 4095)
    /\ obs[1].cur = Encode(U64Add(CUSTOM_EPOCH, FromNat(1)), MAIN_DATACENTER,
                           MAIN_MACHINE, 0)


(***************************************************************************)
(* C5 (SpecTwo).  For every ID next_id returns on a generator built with   *)
(* new(d, m), decode(id) is exactly (t, d, m, s): t the timestamp the call *)
(* chose, s the sequence it stored; the decoded sequence is in 0 .. 4095   *)
(* and the decoded timestamp is at least 1288834974657.                    *)
(***************************************************************************)
C5_RoundTrip ==
    \A t \in Threads :
        Returned(t) =>
            LET g == th[t].g
                out == decode(th[t].ret)
            IN  /\ out = <<th[t].timestamp, args[g][1], args[g][2], th[t].seq>>
                /\ out[2] = gen[g].datacenter_id
                /\ out[3] = gen[g].machine_id
                /\ out[4] \in 0 .. 4095
                /\ U64Le(<<0, 307282, 852929>>, out[1])
                /\ th[t].ret \in issued[g]

\* an ID with every bit of datacenter, machine and sequence set, and a
\* timestamp above the epoch, has been returned and decoded
C5_Witness ==
    /\ Returned(1)
    /\ args[th[1].g] = <<31, 31>>
    /\ th[1].seq = 4095
    /\ th[1].timestamp # CUSTOM_EPOCH

(***************************************************************************)
(* C9 (SpecTwo).  Two generators built with different (datacenter_id,      *)
(* machine_id) pairs never return the same ID, whatever the clock reads    *)
(* and however many IDs each has returned.                                 *)
(***************************************************************************)
C9_DistinctNodesDistinctIds ==
    args[1] # args[2] => issued[1] \cap issued[2] = {}

\* two generators that differ in one id only have each returned an ID with
\* the same timestamp and the same sequence
C9_Witness ==
    /\ args[1][1] = args[2][1]
    /\ args[1][2] # args[2][2]
    /\ \E a \in issued[1], b \in issued[2] :
          TsOf(a) = TsOf(b) /\ SeqOf(a) = SeqOf(b)

(***************************************************************************)
(* C6 (SpecNew).  new(datacenter_id, machine_id) panics, and yields no     *)
(* generator, exactly when datacenter_id > 31 or machine_id > 31; for      *)
(* every other pair, (31, 31) included, it yields a generator that holds   *)
(* the two ids, sequence = 0 and last_timestamp = 0.                       *)
(***************************************************************************)
C6_NewValidatesRange ==
    \A g \in Gens :
        gen[g].state # "none" =>
            LET d == args[g][1]
                m == args[g][2]
            IN  IF d > 31 \/ m > 31
                THEN gen[g].state \notin {"none", "built"}
                ELSE gen[g] = [state |-> "built", datacenter_id |-> d,
                               machine_id |-> m, sequence |-> 0,
                               last_timestamp |-> <<0, 0, 0>>]

\* new(31, 31) has built a generator
C6_Witness ==
    /\ args[1] = <<31, 31>>
    /\ gen[1].state = "built"

(***************************************************************************)
(* C7 (SpecDecode).  For a timestamp offset in 0 .. 2^41 - 1, a datacenter *)
(* and a machine in 0 .. 31 and a sequence in 0 .. 4095, decode of         *)
(* (offset << 22) | (datacenter << 17) | (machine << 12) | sequence is     *)
(* exactly (1288834974657 + offset, datacenter, machine, sequence); offset *)
(* 0, datacenter 5, machine 7, sequence 42 decode to                       *)
(* (1288834974657, 5, 7, 42).                                              *)
(***************************************************************************)
C7_DecodeInvertsPacking ==
    /\ dec.id # NoId =>
          dec.out = <<U64Add(<<0, 307282, 852929>>, dec.parts[1]),
                      dec.parts[2], dec.parts[3], dec.parts[4]>>
    /\ dec.parts = <<Zero, 5, 7, 42>> =>
          /\ dec.id = <<0, 0, 5 * 131072 + 7 * 4096 + 42>>
          /\ dec.out = <<(<<0, 307282, 852929>>), 5, 7, 42>>

\* the largest offset, 2^41 - 1, with every other field at its largest
C7_Witness ==
    /\ dec.parts = <<(<<0, 524287, 4194303>>), 31, 31, 4095>>
    /\ dec.out # NoId

(***************************************************************************)
(* C11 (SpecWide).  Every ID next_id returns has bit 63 equal to 0 and     *)
(* carries its timestamp offset, timestamp - 1288834974657, whole in bits  *)
(* 22 to 62, for every value the clock can read: the ID shifted right by   *)
(* 22 is the offset, and the offset is below 2^41.                         *)
(***************************************************************************)
C11_SignBitClear ==
    \A t \in Threads :
        Returned(t) =>
            /\ th[t].ret[1] < Pow2(TopBits - 1)
            /\ Shr(th[t].ret, 22) = U64Sub(th[t].timestamp, <<0, 307282, 852929>>)
            /\ U64Le(Shr(th[t].ret, 22), <<0, 524287, 4194303>>)

(***************************************************************************)
(* C12 (SpecWide).  For every value the clock can read, the values below   *)
(* 1288834974657 included, a call of next_id does not abort and does not   *)
(* wrap in timestamp - CUSTOM_EPOCH: it returns an ID whose decoded        *)
(* timestamp is the clock value the call used.                             *)
(***************************************************************************)
C12_NoFailureMode ==
    \A t \in Threads :
        /\ th[t].pc # "panicked"
        /\ Returned(t) =>
              /\ ~U64Lt(th[t].timestamp, <<0, 307282, 852929>>)
              /\ TsOf(th[t].ret) = th[t].timestamp

(***************************************************************************)
(* C13 (SpecConc).  With a clock that never moves backward, in every       *)
(* interleaving of concurrent calls the stored last_timestamp never        *)
(* decreases from one state to the next, and the timestamps of the IDs,    *)
(* taken in the order in which their calls store last_timestamp, never     *)
(* decrease.                                                               *)
(***************************************************************************)
C13_LastTimestampMonotone ==
    [][/\ U64Le(gen[1].last_timestamp, gen'[1].last_timestamp)
       /\ obs'[1].prev # NoId => U64Le(TsOf(obs'[1].prev), TsOf(obs'[1].cur))]_vars

(***************************************************************************)
(* C14 (SpecConc).  Under concurrent callers, the (last_timestamp,         *)
(* sequence) combination a call has loaded and decided on is a pair that   *)
(* one single call stored together, that is the (timestamp, sequence) of   *)
(* an ID already returned, or the pair the generator held before the       *)
(* callers began; never one call's sequence with another call's            *)
(* last_timestamp.                                                         *)
(***************************************************************************)
\* caller t has loaded both last_timestamp and sequence in its present call
C14_LoadedBoth(t) ==
    /\ th[t].pc \in {"wait_exhaust", "store_seq", "store_ts"} \/ Returned(t)
    /\ \/ th[t].pc = "wait_exhaust"
       \/ th[t].waited = "exhaust"
       \/ th[t].timestamp = th[t].last_ts

\* the pairs stored together by one call, and those of the states the callers
\* may start from
C14_StoredTogether(g) ==
    {<<TsOf(id), SeqOf(id)>> : id \in issued[g]} \cup
    {<<u.last_timestamp, u.sequence>> :
        u \in UsedStates(new(MAIN_DATACENTER, MAIN_MACHINE), ConcClockValues)}

C14_NoTornRead ==
    \A t \in Threads :
        C14_LoadedBoth(t) =>
            <<th[t].last_ts, (th[t].seq + 4095) % 4096>> \in C14_StoredTogether(th[t].g)

(***************************************************************************)
(* C15 (SpecConc).  A call that wraps the sequence to 0, the 4096          *)
(* sequences of its millisecond being used up, stores and encodes the pair *)
(* (timestamp after the wait, 0), and that timestamp is strictly greater   *)
(* than the last_timestamp the call read; it never stores or returns the   *)
(* timestamp it had before the wait with sequence 0.                       *)
(***************************************************************************)
C15_WrapUsesNewTimestamp ==
    [][\A t \in Threads :
          th'[t].waited = "exhaust" =>
              /\ th'[t].seq = 0
              /\ th'[t].began = th'[t].last_ts
              /\ U64Lt(th'[t].last_ts, th'[t].timestamp)
              /\ th[t].pc = "store_seq" /\ th'[t].pc = "store_ts" =>
                    gen'[th[t].g].sequence = 0
              /\ th[t].pc = "store_ts" /\ th'[t].pc = "idle" =>
                    /\ gen'[th[t].g].last_timestamp = th[t].timestamp
                    /\ TsOf(th'[t].ret) = th[t].timestamp
                    /\ SeqOf(th'[t].ret) = 0]_vars

\* a call has waited out a used-up millisecond and returned, and the
\* generator holds the pair it stored
C15_Witness ==
    \E t \in Threads :
        /\ Returned(t)
        /\ th[t].waited = "exhaust"
        /\ gen[1].last_timestamp = th[t].timestamp
        /\ gen[1].sequence = 0
        /\ U64Lt(th[t].began, th[t].timestamp)

(***************************************************************************)
(* C16 (SpecTwo).  A call that found the clock below last_timestamp reads  *)
(* the clock again and goes on with the first value it reads that is       *)
(* greater than or equal to last_timestamp: while it waits, every value it *)
(* has read is below last_timestamp, and when the clock is back at exactly *)
(* last_timestamp it goes on with that timestamp.                          *)
(***************************************************************************)
C16_ProceedsAtLastTimestamp ==
    /\ th[1].pc = "wait_rollback" /\ th[1].ts # NoId =>
          U64Lt(th[1].ts, th[1].last_ts)
    /\ th[1].waited = "rollback" =>
          /\ th[1].timestamp = th[1].ts
          /\ U64Le(th[1].last_ts, th[1].timestamp)

(***************************************************************************)
(* C17 (SpecSeq).  For a single caller: a call whose timestamp differs     *)
(* from the stored last_timestamp gets sequence 0, a call whose timestamp  *)
(* equals it gets (stored sequence + 1) mod 4096, waiting for a later      *)
(* millisecond when that is 0; the k-th ID with one timestamp, k in        *)
(* 1 .. 4096, carries sequence k - 1; and after each call the stored       *)
(* (last_timestamp, sequence) is the (timestamp, sequence) of the ID just  *)
(* returned.                                                               *)
(***************************************************************************)
C17_SequenceRule ==
    /\ th[1].pc \in {"wait_exhaust", "store_seq"} =>
          /\ gen[1].last_timestamp = th[1].last_ts
          /\ th[1].seq = IF th[1].timestamp = th[1].last_ts \/ th[1].waited = "exhaust"
                         THEN (gen[1].sequence + 1) % 4096
                         ELSE 0
          /\ th[1].pc = "wait_exhaust" <=>
                th[1].timestamp = th[1].last_ts /\ th[1].seq = 0
    /\ obs[1].cur # NoId => obs[1].run \in 1 .. 4096
    /\ Returned(1) =>
          /\ th[1].ret = obs[1].cur
          /\ th[1].seq = obs[1].run - 1
          /\ gen[1].last_timestamp = th[1].timestamp
          /\ gen[1].sequence = th[1].seq
          /\ LET out == decode(th[1].ret)
             IN  out[1] = th[1].timestamp /\ out[4] = th[1].seq

\* the caller has returned an ID with the stored sequence incremented, and
\* before it an ID with sequence 0 that followed a backward step of the clock
C17_Witness ==
    /\ Returned(1)
    /\ th[1].timestamp = th[1].last_ts
    /\ th[1].seq = 2
    /\ obs[1].prevMax # NoId
    /\ U64Lt(clock, th[1].timestamp)

(***************************************************************************)
(* C18 (SpecLive).  With a clock that goes on advancing, every call of     *)
(* next_id returns, for one caller and in every interleaving of two: the   *)
(* call returns, unless it waits for the clock to pass LiveTop, the one    *)
(* value the bounded clock cannot pass: neither the clock-regression wait  *)
(* nor the sequence-exhaustion wait holds a call once the clock is past    *)
(* the last_timestamp it read.  A call that entered neither wait has read  *)
(* the clock once, at its start, and nowhere else.                         *)
(***************************************************************************)
C18_EveryCallReturns ==
    /\ [](\A t \in Threads :
            Returned(t) /\ th[t].waited = "none" =>
                th[t].timestamp = th[t].began /\ th[t].ts = NoId)
    /\ \A t \in Threads :
          th[t].pc # "idle"
              ~> \/ th[t].pc = "idle"
                 \/ /\ th[t].pc \in {"wait_rollback", "wait_exhaust"}
                    /\ th[t].last_ts = LiveTop

\* one caller has returned from the clock-regression wait and the other from
\* the sequence-exhaustion wait
C18_Witness ==
    \E t, u \in Threads :
        /\ Returned(t) /\ th[t].waited = "rollback"
        /\ Returned(u) /\ th[u].waited = "exhaust"

====
